---- MODULE Spec2Model ----
(***************************************************************************)
(* A model of pybedlite's OverlapDetector (pybedlite/overlap_detector.py)  *)
(* and of the Interval value type it is usually filled with.               *)
(*                                                                         *)
(* The detector keeps three dicts keyed by reference name: the cgranges    *)
(* tree, the "indexed" flag and the list of stored values.  The cgranges   *)
(* extension is built from the cgranges/ directory (build.py) and its      *)
(* sources are not part of src/; it is modelled after section 4.3 of the   *)
(* specification (PerContigIndex).                                         *)
(***************************************************************************)
EXTENDS Integers, Sequences, FiniteSets, TLC

\* The number of add calls a behaviour may make.
MaxAdds == 3

\* The largest coordinate an Interval or a BedRecord is constructed with.
MaxCoord == 2

None == "None"

(***************************************************************************)
(* Values.  A value is a record; cls names its Python class.  "Interval"   *)
(* is pybedlite's attrs class (refname, start, end, negative, name);       *)
(* "Unstranded" is a caller type with refname, start and end only (no      *)
(* negative attribute), such as the tests' ZeroBasedUnstranded dataclass.  *)
(* Two values are equal (Python ==, and same hash) iff the records are.    *)
(***************************************************************************)
Span(cls, refname, start, end, negative, name) ==
    [cls |-> cls, refname |-> refname, start |-> start, end |-> end,
     negative |-> negative, name |-> name]

MkInterval(refname, start, end, negative, name) ==
    Span("Interval", refname, start, end, negative, name)

Unstranded(refname, start, end) ==
    Span("Unstranded", refname, start, end, FALSE, None)

\* The values add() is called with, in a fixed enumeration order.
AddSeq ==
    << Unstranded("chr1", 0, 2),
       MkInterval("chr1", 0, 2, FALSE, "x"),
       MkInterval("chr1", 0, 2, TRUE, None),
       MkInterval("chr1", 1, 3, FALSE, None),
       Unstranded("chr1", 1, 1),
       MkInterval("chr2", 0, 2, FALSE, None) >>

AddPool == {AddSeq[i] : i \in 1..Len(AddSeq)}

\* The BedRecords a BED file gives to from_bed, as the spans the detector
\* sees: refname is chrom, negative is "strand is BedStrand.Negative".
BedSeq ==
    << Span("BedRecord", "chr1", 0, 2, FALSE, None),
       Span("BedRecord", "chr1", 1, 3, TRUE, "x") >>

BedPool == {BedSeq[i] : i \in 1..Len(BedSeq)}

\* The spans the query methods are called with (any Span: not validated).
QueryPool ==
    { MkInterval("chr1", 0, 1, FALSE, None),
      MkInterval("chr1", 0, 2, FALSE, None),
      Unstranded("chr1", 1, 1),
      MkInterval("chr2", 0, 2, FALSE, None) }

(***************************************************************************)
(* Python dicts, as sequences of <<key, value>> in insertion order.        *)
(***************************************************************************)
DictHas(d, k) == \E i \in 1..Len(d) : d[i][1] = k

DictGet(d, k) == d[CHOOSE i \in 1..Len(d) : d[i][1] = k][2]

DictSet(d, k, v) ==
    IF DictHas(d, k)
    THEN [i \in 1..Len(d) |-> IF d[i][1] = k THEN <<k, v>> ELSE d[i]]
    ELSE Append(d, <<k, v>>)

DictValues(d) == [i \in 1..Len(d) |-> d[i][2]]

RECURSIVE Chain(_)
Chain(lists) ==
    IF lists = <<>> THEN <<>> ELSE Head(lists) \o Chain(Tail(lists))

Max2(a, b) == IF a >= b THEN a ELSE b

Min2(a, b) == IF a <= b THEN a ELSE b

(***************************************************************************)
(* cgranges, one tree per contig (specification section 4.3).              *)
(* entries: the appended (start, end, label) triples; sortedByStart and    *)
(* maxEndAugment: the derived arrays; dirty: entries were added since the  *)
(* last build.                                                             *)
(***************************************************************************)
cgranges ==
    [entries |-> <<>>, sortedByStart |-> <<>>, maxEndAugment |-> <<>>,
     dirty |-> TRUE]

TreeAdd(t, start, end, label) ==
    [t EXCEPT !.entries = Append(@, [start |-> start, end |-> end, label |-> label]),
              !.dirty = TRUE]

\* Stable insertion of e into a sequence sorted by start.
RECURSIVE InsertByStart(_, _)
InsertByStart(s, e) ==
    IF s = <<>> THEN <<e>>
    ELSE IF e.start < Head(s).start THEN <<e>> \o s
    ELSE <<Head(s)>> \o InsertByStart(Tail(s), e)

RECURSIVE SortByStart(_)
SortByStart(entries) ==
    IF entries = <<>> THEN <<>>
    ELSE InsertByStart(SortByStart(SubSeq(entries, 1, Len(entries) - 1)),
                       entries[Len(entries)])

\* Node i (0-based) of the implicit tree over s has children 2i+1 and 2i+2:
\* the maximum end over node i and all its descendants.
RECURSIVE SubtreeMaxEnd(_, _)
SubtreeMaxEnd(s, i) ==
    LET l == 2 * i + 1
        r == 2 * i + 2
        own == s[i + 1].end
        withL == IF l < Len(s) THEN Max2(own, SubtreeMaxEnd(s, l)) ELSE own
    IN IF r < Len(s) THEN Max2(withL, SubtreeMaxEnd(s, r)) ELSE withL

\* The pass that fills maxEndAugment, visiting the nodes (0-based) in the
\* given order from position k on: aug[i] = max(end[i], aug[left child],
\* aug[right child]), read from the array as it is at that moment.
RECURSIVE AugmentOver(_, _, _, _)
AugmentOver(s, order, k, aug) ==
    IF k > Len(order) THEN aug
    ELSE LET i == order[k]
             l == 2 * i + 1
             r == 2 * i + 2
             own == s[i + 1].end
             withL == IF l < Len(s) THEN Max2(own, aug[l + 1]) ELSE own
             value == IF r < Len(s) THEN Max2(withL, aug[r + 1]) ELSE withL
         IN AugmentOver(s, order, k + 1, [aug EXCEPT ![i + 1] = value])

\* A pass in the given order reads some child's value before computing it.
ReadsEarly(s, order) ==
    \E k \in 1..Len(order) :
        \E c \in {2 * order[k] + 1, 2 * order[k] + 2} :
            c < Len(s) /\ ~ \E j \in 1..(k - 1) : order[j] = c

\* Mutant of AugmentPass: the nodes are visited in index order, root first.
AugmentPass_forward(s) ==
    AugmentOver(s, [k \in 1..Len(s) |-> k - 1], 1, [i \in 1..Len(s) |-> 0])

\* The bottom-up pass: reverse index order, last node first.
BottomUp(s) == [k \in 1..Len(s) |-> Len(s) - k]

AugmentPass(s) == AugmentOver(s, BottomUp(s), 1, [i \in 1..Len(s) |-> 0])

\* ensureIndexed: a dirty tree is sorted and augmented, a clean one is left.
TreeIndex(t) ==
    IF t.dirty
    THEN LET s == SortByStart(t.entries)
         IN [t EXCEPT !.sortedByStart = s,
                      !.maxEndAugment = AugmentPass(s),
                      !.dirty = FALSE]
    ELSE t

\* Mutant of EntryOverlaps: spans that only touch count as overlapping.
EntryOverlaps_touching(e, qstart, qend) == e.start <= qend /\ e.end >= qstart

\* The query's test of one entry.
EntryOverlaps(e, qstart, qend) == e.start < qend /\ e.end > qstart

\* Mutant of Traverse: a subtree is pruned on its root's own end.
RECURSIVE Traverse_own_end(_, _, _, _)
Traverse_own_end(t, i, qstart, qend) ==
    IF i >= Len(t.sortedByStart) THEN <<>>
    ELSE IF t.sortedByStart[i + 1].end <= qstart THEN <<>>
    ELSE LET e == t.sortedByStart[i + 1]
         IN Traverse_own_end(t, 2 * i + 1, qstart, qend)
            \o (IF EntryOverlaps(e, qstart, qend) THEN <<e>> ELSE <<>>)
            \o (IF e.start < qend THEN Traverse_own_end(t, 2 * i + 2, qstart, qend)
                ELSE <<>>)

\* The pruned depth-first traversal from node i: the labels it emits, in order.
RECURSIVE Traverse(_, _, _, _)
Traverse(t, i, qstart, qend) ==
    IF i >= Len(t.sortedByStart) THEN <<>>
    ELSE IF t.maxEndAugment[i + 1] <= qstart THEN <<>>
    ELSE LET e == t.sortedByStart[i + 1]
         IN Traverse(t, 2 * i + 1, qstart, qend)
            \o (IF EntryOverlaps(e, qstart, qend) THEN <<e>> ELSE <<>>)
            \o (IF e.start < qend THEN Traverse(t, 2 * i + 2, qstart, qend) ELSE <<>>)

\* tree.overlap(refname, start, end) on a tree: the (start, end, label) triples.
TreeOverlap(t, qstart, qend) == Traverse(TreeIndex(t), 0, qstart, qend)

(***************************************************************************)
(* The detector.                                                           *)
(***************************************************************************)
VARIABLES
    refname_to_tree,       \* self._refname_to_tree: dict refname -> cgranges
    refname_to_indexed,    \* self._refname_to_indexed: dict refname -> bool
    refname_to_intervals,  \* self._refname_to_intervals: dict refname -> list
    hashSeed,              \* the interpreter's hash seed: fixes set iteration order
    added,                 \* history: every value passed to add, in call order
    last,                  \* the last call: its name, argument and result
    made,                  \* the last construction of an Interval and its outcome
    measured,              \* the last call of Interval.length / Interval.overlap
    bulk,                  \* the last call on a detector filled by a bulk operation
    bed,                   \* the last BedRecord conversion or BED file round trip
    probe,                 \* one cgranges tree on its own and the last call on it
    source                 \* one BedSource, its file handles and its iterators

vars == <<refname_to_tree, refname_to_indexed, refname_to_intervals,
          hashSeed, added, last, made, measured, bulk, bed, probe, source>>

\* The records of the calls that do not go through the detector's own actions.
rest == <<measured, bulk, bed, probe, source>>

detector == <<refname_to_tree, refname_to_indexed, refname_to_intervals>>

HashSeeds == {"s0", "s1"}

Call(op, arg, any, list, stale) ==
    [op |-> op, arg |-> arg, any |-> any, list |-> list, stale |-> stale]

NoArg == Unstranded(None, 0, 0)

\* The order in which a Python set holding the values of S is iterated.  It
\* depends on the values' hashes, which hash the refname string and so on the
\* interpreter's hash seed; within one interpreter it is fixed.
Reverse(s) == [i \in 1..Len(s) |-> s[Len(s) + 1 - i]]

SetIter(S, seed) ==
    LET order == IF seed = "s0" THEN AddSeq \o BedSeq ELSE Reverse(AddSeq \o BedSeq)
    IN SelectSeq(order, LAMBDA v : v \in S)

\* Python's < on strings, for the reference names in use.
StrLt(a, b) == a = "chr1" /\ b = "chr2"

\* Mutant of negative: a value without the attribute counts as negative.
negative_absent_true(interval) ==
    IF interval.cls \in {"Interval", "BedRecord"} THEN interval.negative ELSE TRUE

\* OverlapDetector._negative: getattr(interval, "negative", False).
negative(interval) ==
    IF interval.cls \in {"Interval", "BedRecord"} THEN interval.negative ELSE FALSE

\* The sort key of get_overlaps, and Python's < on two such tuples.
SortKey(intv) == <<intv.start, intv.end, negative(intv), intv.refname>>

KeyLt(a, b) ==
    \/ a[1] < b[1]
    \/ a[1] = b[1] /\ a[2] < b[2]
    \/ a[1] = b[1] /\ a[2] = b[2] /\ ~a[3] /\ b[3]
    \/ a[1] = b[1] /\ a[2] = b[2] /\ a[3] = b[3] /\ StrLt(a[4], b[4])

\* sorted(xs, key=SortKey): Python's sort is stable.
RECURSIVE InsertByKey(_, _)
InsertByKey(s, x) ==
    IF s = <<>> THEN <<x>>
    ELSE IF KeyLt(SortKey(x), SortKey(Head(s))) THEN <<x>> \o s
    ELSE <<Head(s)>> \o InsertByKey(Tail(s), x)

\* Mutant of sorted: the list is returned in the order it came in.
sorted_unsorted(xs) == xs

RECURSIVE sorted(_)
sorted(xs) ==
    IF xs = <<>> THEN <<>>
    ELSE InsertByKey(sorted(SubSeq(xs, 1, Len(xs) - 1)), xs[Len(xs)])

(***************************************************************************)
(* Construction of Intervals.  A construction either raises ValueError or  *)
(* returns the new object.                                                 *)
(***************************************************************************)
Raise == [raised |-> TRUE, obj |-> NoArg]

Return(obj) == [raised |-> FALSE, obj |-> obj]

Construction(call, arg, outcome) ==
    [call |-> call, arg |-> arg, raised |-> outcome.raised, obj |-> outcome.obj]

\* Mutant of attrs_post_init: the check of start against 0 is missing.
attrs_post_init_no_range_check(self) == self.end > self.start

\* Interval.__attrs_post_init__: TRUE when the checks pass, FALSE when one raises.
attrs_post_init(self) ==
    IF self.start < 0 THEN FALSE
    ELSE IF self.end <= self.start THEN FALSE
    ELSE TRUE

\* Interval(refname, start, end, negative, name).
Interval(refname, start, end, neg, name) ==
    LET self == MkInterval(refname, start, end, neg, name)
    IN IF attrs_post_init(self) THEN Return(self) ELSE Raise

\* BedRecord(chrom, start, end, name, strand): the start validator asserts
\* end > start; the fields from_bedrecord does not read are left out.
BedStrandPositive == "+"

BedStrandNegative == "-"

BedRecords ==
    { r \in [chrom : {"chr1"}, start : -1..MaxCoord, end : 0..(MaxCoord + 1),
             name : {None, "x"},
             strand : {None, BedStrandPositive, BedStrandNegative}] :
        r.end > r.start }

\* Interval.from_bedrecord.
from_bedrecord(record) ==
    Interval(record.chrom, record.start, record.end,
             record.strand = BedStrandNegative, record.name)

\* BedRecord(chrom, start, end, name, strand): AssertionError unless end > start.
BedRecord(chrom, start, end, name, strand) ==
    IF end > start
    THEN [raised |-> FALSE,
          obj |-> [chrom |-> chrom, start |-> start, end |-> end, name |-> name,
                   strand |-> strand]]
    ELSE [raised |-> TRUE, obj |-> NoArg]

\* Mutant of from_interval: an Interval that is not negative gives no strand.
from_interval_unstranded(interval) ==
    BedRecord(interval.refname, interval.start, interval.end, interval.name,
              IF interval.negative THEN BedStrandNegative ELSE None)

\* BedRecord.from_interval.
from_interval(interval) ==
    BedRecord(interval.refname, interval.start, interval.end, interval.name,
              IF interval.negative THEN BedStrandNegative ELSE BedStrandPositive)

(***************************************************************************)
(* Strings are sequences of one-character strings.                         *)
(***************************************************************************)
Last(s) == s[Len(s)]

\* str.rstrip(ch).
RECURSIVE RStrip(_, _)
RStrip(s, ch) ==
    IF s # <<>> /\ Last(s) = ch THEN RStrip(SubSeq(s, 1, Len(s) - 1), ch) ELSE s

\* str.rsplit(ch, 1): one piece when ch is absent, else the text before and
\* after its last occurrence.
RSplit1(s, ch) ==
    IF \E i \in 1..Len(s) : s[i] = ch
    THEN LET at == CHOOSE i \in 1..Len(s) :
                       s[i] = ch /\ \A j \in (i + 1)..Len(s) : s[j] # ch
         IN <<SubSeq(s, 1, at - 1), SubSeq(s, at + 1, Len(s))>>
    ELSE <<s>>

\* str.split(ch): the pieces between all occurrences of ch.
RECURSIVE Split(_, _)
Split(s, ch) ==
    IF \E i \in 1..Len(s) : s[i] = ch
    THEN LET at == CHOOSE i \in 1..Len(s) :
                       s[i] = ch /\ \A j \in 1..(i - 1) : s[j] # ch
         IN <<SubSeq(s, 1, at - 1)>> \o Split(SubSeq(s, at + 1, Len(s)), ch)
    ELSE <<s>>

Digits == <<"0", "1", "2", "3", "4", "5", "6", "7", "8", "9">>

IsDigit(c) == \E d \in 1..Len(Digits) : Digits[d] = c

DigitValue(c) == (CHOOSE d \in 1..Len(Digits) : Digits[d] = c) - 1

RECURSIVE DecimalValue(_)
DecimalValue(s) ==
    IF s = <<>> THEN 0
    ELSE 10 * DecimalValue(SubSeq(s, 1, Len(s) - 1)) + DigitValue(Last(s))

\* int(s) over the characters in use: an optional sign, then one or more
\* digits; anything else raises.
IntParses(s) ==
    LET body == IF s # <<>> /\ s[1] \in {"+", "-"} THEN Tail(s) ELSE s
    IN body # <<>> /\ \A i \in 1..Len(body) : IsDigit(body[i])

int(s) ==
    IF s[1] = "-" THEN 0 - DecimalValue(Tail(s))
    ELSE IF s[1] = "+" THEN DecimalValue(Tail(s))
    ELSE DecimalValue(s)

\* Interval.from_ucsc(string, name): any exception inside becomes ValueError.
from_ucsc(string, name) ==
    IF string = <<>> THEN Raise
    ELSE LET stranded == Last(string) = ")"
             parts == IF stranded THEN RSplit1(RStrip(string, ")"), "(")
                      ELSE <<string, <<"+">>>>
         IN IF Len(parts) # 2 THEN Raise
            ELSE LET interval == parts[1]
                     strand == parts[2]
                     contig_span == RSplit1(interval, ":")
                 IN IF Len(contig_span) # 2 THEN Raise
                    ELSE LET contig == contig_span[1]
                             start_end == Split(contig_span[2], "-")
                         IN IF Len(start_end) # 2 THEN Raise
                            ELSE IF ~IntParses(start_end[1]) \/ ~IntParses(start_end[2])
                            THEN Raise
                            ELSE Interval(contig, int(start_end[1]) - 1,
                                          int(start_end[2]), strand = <<"-">>, name)

\* The position strings from_ucsc is called with: contig, colon, start, dash,
\* end and strand suffix, each present, absent or malformed.
DecimalString(n) == <<Digits[n + 1]>>

NumberStrings ==
    {DecimalString(n) : n \in 0..MaxCoord} \cup {<<>>, <<"+", "1">>, <<"1", "0">>}

UcscStrings ==
    { contig \o colon \o start \o dash \o end \o suffix :
        contig \in {<<"c">>, <<"c", ":", "1">>},
        colon \in {<<":">>, <<>>},
        start \in NumberStrings,
        dash \in {<<"-">>, <<"-", "-">>},
        end \in NumberStrings,
        suffix \in {<<>>, <<"(", "+", ")">>, <<"(", "-", ")">>,
                    <<"(", "-", ")", ")">>, <<")">>} }
    \cup {<<>>}

(***************************************************************************)
(* Interval.length and Interval.overlap.                                   *)
(***************************************************************************)
length(self) == self.end - self.start

\* Mutant of overlap: the reference names are not compared.
overlap_ignores_refname(self, other) ==
    LET o == Min2(self.end, other.end) - Max2(self.start, other.start)
    IN IF o > 0 THEN o ELSE 0

overlap(self, other) ==
    IF self.refname # other.refname THEN 0
    ELSE LET o == Min2(self.end, other.end) - Max2(self.start, other.start)
         IN IF o > 0 THEN o ELSE 0

Measure(op, a, b, result) == [op |-> op, a |-> a, b |-> b, result |-> result]

NoMeasure == Measure("none", NoArg, NoArg, 0)

\* The Intervals that exist: every object the constructor returns.
Intervals ==
    { Interval(refname, start, end, FALSE, None).obj :
        <<refname, start, end>> \in
            { t \in {"chr1", "chr2"} \X (-1..(MaxCoord + 1)) \X (-1..(MaxCoord + 1)) :
                ~Interval(t[1], t[2], t[3], FALSE, None).raised } }

\* The values the bulk operations are called with: a complete Span, one
\* value for each missing attribute and one without __hash__.
BulkPool ==
    { MkInterval("chr1", 1, 3, FALSE, None),
      Span("NoRefname", None, 0, 2, FALSE, None),
      Span("NoStart", "chr1", 0, 2, FALSE, None),
      Span("NoEnd", "chr2", 0, 2, FALSE, None),
      Span("Unhashable", "chr1", 1, 2, FALSE, None) }

\* The iterables handed to add_all and to the constructor.
BulkItems == UNION {[1..n -> BulkPool] : n \in 0..MaxAdds}

\* The record of a call on a detector filled in bulk.  For a bulk call:
\* its items, whether it raised, the item it raised for and what iteration
\* gave before it.  For a query: its argument, whether it raised (cause:
\* "hash" for TypeError, "attribute" for AttributeError) and its result.
BulkCall(op, items, raised, failed_at, before, arg, cause, any, list) ==
    [op |-> op, items |-> items, raised |-> raised, failed_at |-> failed_at,
     before |-> before, arg |-> arg, cause |-> cause, any |-> any, list |-> list]

NoBulk == BulkCall("none", <<>>, FALSE, 0, <<>>, NoArg, "none", FALSE, <<>>)

(***************************************************************************)
(* BED records as they are written and read.  Text is a sequence of        *)
(* one-character strings; an Optional field is <<>> for None and <<v>>     *)
(* for a value v.                                                          *)
(***************************************************************************)
MAX_BED_FIELDS == 12

MissingValue == <<".">>

\* A record with the twelve BED fields.
BedFields(chrom, start, end, name, score, strand, thick_start, thick_end, item_rgb, block_count, block_sizes, block_starts) ==
    [chrom |-> chrom, start |-> start, end |-> end, name |-> name, score |-> score,
     strand |-> strand, thick_start |-> thick_start, thick_end |-> thick_end,
     item_rgb |-> item_rgb, block_count |-> block_count,
     block_sizes |-> block_sizes, block_starts |-> block_starts]

\* The attrs validators of BedRecord, in field order: _validate_start,
\* _validate_thick_definitions, _validate_block_counts, _validate_bounds.
\* TRUE when all pass, FALSE when one raises AssertionError.
validators(r) ==
    /\ r.end > r.start
    /\ IF r.thick_start = <<>> THEN r.thick_end = <<>> ELSE r.thick_end # <<>>
    /\ IF r.block_count = <<>>
       THEN r.block_sizes = <<>> /\ r.block_starts = <<>>
       ELSE /\ r.block_sizes # <<>>
            /\ r.block_starts # <<>>
            /\ Len(r.block_sizes[1]) = r.block_count[1]
            /\ Len(r.block_starts[1]) = r.block_count[1]
    /\ r.block_starts # <<>> =>
           /\ r.block_starts[1] # <<>>
           /\ r.block_starts[1][1] = 0
           /\ r.block_sizes[1] # <<>>
           /\ r.end = r.start + Last(r.block_starts[1]) + Last(r.block_sizes[1])

\* BedRecord.bed_field_num.
bed_field_num(r) ==
    IF r.block_starts # <<>> THEN 12
    ELSE IF r.item_rgb # <<>> THEN 9
    ELSE IF r.thick_end # <<>> THEN 8
    ELSE IF r.strand # <<>> THEN 6
    ELSE IF r.score # <<>> THEN 5
    ELSE IF r.name # <<>> THEN 4
    ELSE 3

\* f"{n}" for an int n.
RECURSIVE format_int(_)
format_int(n) ==
    IF n < 0 THEN <<"-">> \o format_int(0 - n)
    ELSE IF n < 10 THEN <<Digits[n + 1]>>
    ELSE format_int(n \div 10) \o <<Digits[(n % 10) + 1]>>

\* sep.join(pieces).
RECURSIVE join(_, _)
join(sep, pieces) ==
    IF pieces = <<>> THEN <<>>
    ELSE IF Len(pieces) = 1 THEN pieces[1]
    ELSE pieces[1] \o sep \o join(sep, Tail(pieces))

format_ints(xs) == join(<<",">>, [i \in 1..Len(xs) |-> format_int(xs[i])])

\* BedRecord.bed_fields.
bed_fields(r) ==
    << r.chrom,
       format_int(r.start),
       format_int(r.end),
       IF r.name = <<>> THEN MissingValue ELSE r.name[1],
       IF r.score = <<>> THEN MissingValue ELSE format_int(r.score[1]),
       IF r.strand = <<>> THEN MissingValue ELSE <<r.strand[1]>>,
       IF r.thick_start = <<>> THEN MissingValue ELSE format_int(r.thick_start[1]),
       IF r.thick_end = <<>> THEN MissingValue ELSE format_int(r.thick_end[1]),
       IF r.item_rgb = <<>> THEN MissingValue ELSE format_ints(r.item_rgb[1]),
       IF r.block_count = <<>> THEN MissingValue ELSE format_int(r.block_count[1]),
       IF r.block_sizes = <<>> THEN MissingValue ELSE format_ints(r.block_sizes[1]),
       IF r.block_starts = <<>> THEN MissingValue ELSE format_ints(r.block_starts[1]) >>

\* BedRecord.as_bed_line(number_of_output_fields), the number given.
as_bed_line(r, number_of_output_fields) ==
    join(<<"\t">>, SubSeq(bed_fields(r), 1, number_of_output_fields))

\* BedWriter.write on a writer whose num_fields is set: ValueError, or the
\* text appended to the file.
write(num_fields, record, truncate, add_missing) ==
    IF num_fields < bed_field_num(record) /\ ~truncate
    THEN [raised |-> TRUE, text |-> <<>>]
    ELSE IF num_fields > bed_field_num(record) /\ ~add_missing
    THEN [raised |-> TRUE, text |-> <<>>]
    ELSE [raised |-> FALSE, text |-> as_bed_line(record, num_fields) \o <<"\n">>]

\* BedWriter.write_all from record i on: the lines written before a raise
\* stay in the file.  A writer made with num_fields None takes the field
\* count of the first record it writes.
RECURSIVE write_all_from(_, _, _, _, _)
write_all_from(num_fields, records, i, truncate, add_missing) ==
    IF i > Len(records) THEN [raised |-> FALSE, lines |-> <<>>]
    ELSE LET n == IF num_fields = <<>> THEN bed_field_num(records[i])
                  ELSE num_fields[1]
             one == write(n, records[i], truncate, add_missing)
             others == write_all_from(<<n>>, records, i + 1, truncate, add_missing)
         IN IF one.raised THEN [raised |-> TRUE, lines |-> <<>>]
            ELSE [raised |-> others.raised, lines |-> <<one.text>> \o others.lines]

write_all(num_fields, records, truncate, add_missing) ==
    write_all_from(num_fields, records, 1, truncate, add_missing)

\* str.strip(): whitespace is removed from both ends.
Whitespace == {" ", "\t", "\n"}

RECURSIVE strip(_)
strip(s) ==
    IF s = <<>> THEN s
    ELSE IF s[1] \in Whitespace THEN strip(Tail(s))
    ELSE IF Last(s) \in Whitespace THEN strip(SubSeq(s, 1, Len(s) - 1))
    ELSE s

startswith(s, prefix) ==
    Len(s) >= Len(prefix) /\ SubSeq(s, 1, Len(prefix)) = prefix

\* [int(y) for y in x.split(",")]: <<>> when some piece is not an int.
parse_ints(x) ==
    LET pieces == Split(x, ",")
    IN IF \A i \in 1..Len(pieces) : IntParses(pieces[i])
       THEN <<[i \in 1..Len(pieces) |-> int(pieces[i])]>>
       ELSE <<>>

\* helper(fields, index, present_fn) of BedSource.__iter__, index 0-based:
\* the text of a present field, <<>> for an absent or "." field.
helper(fields, index) ==
    IF Len(fields) <= index \/ fields[index + 1] = MissingValue THEN <<>>
    ELSE <<fields[index + 1]>>

\* One data line of BedSource.__iter__: the BedRecord it yields, or a raise
\* (AssertionError or ValueError).
parse_line(line) ==
    LET fields == Split(strip(line), "\t")
        num_fields == Len(fields)
        raise == [raised |-> TRUE, record |-> <<>>]
        opt_int(index) ==
            LET text == helper(fields, index)
            IN IF text = <<>> THEN [ok |-> TRUE, value |-> <<>>]
               ELSE IF IntParses(text[1]) THEN [ok |-> TRUE, value |-> <<int(text[1])>>]
               ELSE [ok |-> FALSE, value |-> <<>>]
        opt_ints(index) ==
            LET text == helper(fields, index)
            IN IF text = <<>> THEN [ok |-> TRUE, value |-> <<>>]
               ELSE [ok |-> parse_ints(text[1]) # <<>>, value |-> parse_ints(text[1])]
        none == [ok |-> TRUE, value |-> <<>>]
        block_count == IF num_fields >= 10 THEN opt_int(9) ELSE none
        block_sizes == IF num_fields >= 10 THEN opt_ints(10) ELSE none
        block_starts == IF num_fields >= 10 THEN opt_ints(11) ELSE none
        item_rgb == IF num_fields >= 9 THEN opt_ints(8) ELSE none
        thick_start == IF num_fields >= 7 THEN opt_int(6) ELSE none
        thick_end == IF num_fields >= 7 THEN opt_int(7) ELSE none
        strand == IF num_fields >= 6 THEN helper(fields, 5) ELSE <<>>
        score == IF num_fields >= 5 THEN opt_int(4) ELSE none
        name == IF num_fields >= 4 THEN helper(fields, 3) ELSE <<>>
    IN IF num_fields < 3 THEN raise
       ELSE IF ~IntParses(fields[2]) \/ ~IntParses(fields[3]) THEN raise
       ELSE IF ~block_count.ok \/ ~block_sizes.ok \/ ~block_starts.ok THEN raise
       ELSE IF ~item_rgb.ok THEN raise
       ELSE IF item_rgb.value # <<>> /\ Len(item_rgb.value[1]) # 3 THEN raise
       ELSE IF ~thick_start.ok \/ ~thick_end.ok THEN raise
       ELSE IF strand # <<>> /\ strand[1] \notin {<<"+">>, <<"-">>} THEN raise
       ELSE IF ~score.ok THEN raise
       ELSE LET r == BedFields(fields[1], int(fields[2]), int(fields[3]), name,
                               score.value,
                               IF strand = <<>> THEN <<>> ELSE <<strand[1][1]>>,
                               thick_start.value, thick_end.value, item_rgb.value,
                               block_count.value, block_sizes.value,
                               block_starts.value)
            IN IF validators(r) THEN [raised |-> FALSE, record |-> <<r>>] ELSE raise

\* BedSource.__iter__ from line i on, consumed until it ends or raises:
\* header lines and blank lines are skipped.
RECURSIVE iter_lines(_, _)
iter_lines(lines, i) ==
    IF i > Len(lines) THEN [raised |-> FALSE, records |-> <<>>]
    ELSE LET line == lines[i]
         IN IF \/ startswith(line, <<"#">>)
               \/ startswith(line, <<"b", "r", "o", "w", "s", "e", "r">>)
               \/ startswith(line, <<"t", "r", "a", "c", "k">>)
               \/ strip(line) = <<>>
            THEN iter_lines(lines, i + 1)
            ELSE LET one == parse_line(line)
                     others == iter_lines(lines, i + 1)
                 IN IF one.raised THEN [raised |-> TRUE, records |-> <<>>]
                    ELSE [raised |-> others.raised,
                          records |-> one.record \o others.records]

\* The records the writer is given: every combination of present and absent
\* optional fields on a few coordinates, each accepted by the validators.
BedFileRecords ==
    { r \in { BedFields(<<"c">>, start, end, name, score, strand,
                        IF thick THEN <<start>> ELSE <<>>,
                        IF thick THEN <<end>> ELSE <<>>,
                        IF rgb THEN <<(<<0, 0, 0>>)>> ELSE <<>>,
                        IF blocks THEN <<1>> ELSE <<>>,
                        IF blocks THEN <<(<<end - start>>)>> ELSE <<>>,
                        IF blocks THEN <<(<<0>>)>> ELSE <<>>) :
                start \in 0..1, end \in 1..MaxCoord,
                name \in {<<>>, <<(<<"x">>)>>}, score \in {<<>>, <<7>>},
                strand \in {<<>>, <<"+">>, <<"-">>},
                thick \in BOOLEAN, rgb \in BOOLEAN, blocks \in BOOLEAN } :
        validators(r) }

\* The record that follows the first one in a file of two.
SecondRecord ==
    BedFields(<<"c">>, 0, 1, <<(<<"x">>)>>, <<>>, <<>>, <<>>, <<>>, <<>>, <<>>, <<>>, <<>>)

BedFileContents ==
    {<<r>> : r \in BedFileRecords}
        \cup {<<r, SecondRecord>> : r \in {x \in BedFileRecords : x.score = <<>>}}

NoBed == [op |-> "none"]

(***************************************************************************)
(* One cgranges tree on its own: the entries it is given, the bounds it is *)
(* queried with and the record of the last call on it.                     *)
(***************************************************************************)
\* The (start, end) pairs given to a tree: equal starts, nested and disjoint
\* spans, and one span with start = end.
TreeSpans == {<<0, 1>>, <<0, 3>>, <<1, 2>>, <<2, 3>>, <<1, 1>>}

\* The (qstart, qend) pairs a tree is queried with.
TreeQueries == {<<0, 1>>, <<1, 2>>, <<1, 1>>, <<2, 4>>}

\* The number of entries a tree is given at most.
MaxEntries == MaxAdds + 1

TreeCall(tree, op, qstart, qend, hits) ==
    [tree |-> tree, op |-> op, qstart |-> qstart, qend |-> qend, hits |-> hits]

NoProbe == TreeCall(cgranges, "none", 0, 0, <<>>)

(***************************************************************************)
(* One BedSource.  in_fh is 0 for None and otherwise the number of a file  *)
(* handle; handles holds, for every handle ever opened on the file,        *)
(* whether it is open and how many lines were read from it.  An iterator   *)
(* is a generator made by __iter__: "new" before its first next(),         *)
(* "running" between yields, "done" after it returned, "failed" after an   *)
(* exception left it; managed is its context_managed_by_iterator and fh    *)
(* the handle its loop reads.  file is the file's lines: "ok" parses,      *)
(* "bad" makes the loop body raise.  op, raised and it are the last call   *)
(* made on the source, whether it raised and the iterator it advanced.     *)
(***************************************************************************)
NoSource ==
    [op |-> "none", raised |-> FALSE, path |-> FALSE, in_fh |-> 0,
     file_is_open |-> FALSE, handles |-> <<>>, iters |-> <<>>, file |-> <<>>,
     it |-> 0]

SourceFiles == {<<>>, <<"ok", "ok">>, <<"ok", "bad">>}

\* The number of handles opened and of iterators made at most.
MaxHandles == MaxAdds

MaxIters == MaxAdds - 1

NewIterator == [state |-> "new", managed |-> FALSE, fh |-> 0]

\* BedSource.__init__ with a path, and with a file object that is open or
\* closed.
BedSource_path(file) ==
    [op |-> "init", raised |-> FALSE, path |-> TRUE, in_fh |-> 0,
     file_is_open |-> FALSE, handles |-> <<>>, iters |-> <<>>, file |-> file,
     it |-> 0]

BedSource_io(file, closed) ==
    [op |-> "init", raised |-> FALSE, path |-> FALSE, in_fh |-> 1,
     file_is_open |-> ~closed, handles |-> <<[open |-> ~closed, pos |-> 0]>>,
     iters |-> <<>>, file |-> file, it |-> 0]

\* BedSource.open: the source after the call and whether it raised.
open(s) ==
    IF s.in_fh = 0 \/ (~s.file_is_open /\ s.path)
    THEN [s |-> [s EXCEPT !.handles = Append(@, [open |-> TRUE, pos |-> 0]),
                          !.in_fh = Len(s.handles) + 1,
                          !.file_is_open = TRUE],
          raised |-> FALSE]
    ELSE [s |-> s, raised |-> ~s.file_is_open]

\* BedSource.close.
close(s) ==
    IF ~s.file_is_open THEN [s |-> s, raised |-> TRUE]
    ELSE [s |-> [s EXCEPT !.file_is_open = FALSE,
                          !.handles = [h \in 1..Len(s.handles) |->
                                          IF h = s.in_fh
                                          THEN [s.handles[h] EXCEPT !.open = FALSE]
                                          ELSE s.handles[h]]],
          raised |-> FALSE]

Failed(s, k) == [s |-> [s EXCEPT !.iters[k].state = "failed"], raised |-> TRUE]

\* Mutant of loop_step: an exhausted iterator that opened the file leaves
\* it open.
loop_step_leaves_open(s, k) ==
    LET it == s.iters[k]
        h == s.handles[it.fh]
    IN IF ~h.open THEN Failed(s, k)
       ELSE IF h.pos < Len(s.file)
       THEN LET read == [s EXCEPT !.handles[it.fh].pos = @ + 1]
            IN IF s.file[h.pos + 1] = "bad" THEN Failed(read, k)
               ELSE [s |-> read, raised |-> FALSE]
       ELSE [s |-> [s EXCEPT !.iters[k].state = "done"], raised |-> FALSE]

\* One round of the loop of __iter__ for iterator k, up to the next yield:
\* reading a closed handle raises ValueError; a line is read and parsed;
\* at the end of the file the iterator closes the source if it opened it.
loop_step(s, k) ==
    LET it == s.iters[k]
        h == s.handles[it.fh]
    IN IF ~h.open THEN Failed(s, k)
       ELSE IF h.pos < Len(s.file)
       THEN LET read == [s EXCEPT !.handles[it.fh].pos = @ + 1]
            IN IF s.file[h.pos + 1] = "bad" THEN Failed(read, k)
               ELSE [s |-> read, raised |-> FALSE]
       ELSE IF it.managed
       THEN LET closed == close(s)
            IN IF closed.raised THEN Failed(s, k)
               ELSE [s |-> [closed.s EXCEPT !.file_is_open = FALSE,
                                            !.iters[k].state = "done"],
                     raised |-> FALSE]
       ELSE [s |-> [s EXCEPT !.iters[k].state = "done"], raised |-> FALSE]

\* next() on iterator k.  The first next() runs the generator from its top:
\* a source that is not open is opened and marked as managed by the
\* iterator.
iter_next(s, k) ==
    LET it == s.iters[k]
    IN IF it.state = "running" THEN loop_step(s, k)
       ELSE LET managed == ~s.file_is_open
                opened == IF managed THEN open(s) ELSE [s |-> s, raised |-> FALSE]
            IN IF opened.raised
               THEN Failed([s EXCEPT !.iters[k].managed = managed], k)
               ELSE loop_step([opened.s EXCEPT
                                  !.file_is_open = TRUE,
                                  !.iters[k] = [state |-> "running",
                                                managed |-> managed,
                                                fh |-> opened.s.in_fh]], k)

Init ==
    /\ refname_to_tree = <<>>
    /\ refname_to_indexed = <<>>
    /\ refname_to_intervals = <<>>
    /\ hashSeed \in HashSeeds
    /\ added = <<>>
    /\ last = Call("init", NoArg, FALSE, <<>>, FALSE)
    /\ made = Construction("none", NoArg, Raise)
    /\ measured = NoMeasure
    /\ bulk = NoBulk
    /\ bed = NoBed
    /\ probe = NoProbe
    /\ source = NoSource

\* Mutant of iter: the contigs are visited last-inserted first.
iter_reversed == Chain(Reverse(DictValues(refname_to_intervals)))

\* OverlapDetector.__iter__, consumed: list(detector).
iter == Chain(DictValues(refname_to_intervals))

(***************************************************************************)
(* Values that are not complete Spans.  A value of class "NoRefname",      *)
(* "NoStart" or "NoEnd" lacks that attribute (reading it raises            *)
(* AttributeError); a value of class "Unhashable" has the three attributes *)
(* but no __hash__, like the tests' ChromFeature dataclass.                *)
(***************************************************************************)
HasAttr(v, attribute) ==
    ~ \/ v.cls = "NoRefname" /\ attribute = "refname"
      \/ v.cls = "NoStart" /\ attribute = "start"
      \/ v.cls = "NoEnd" /\ attribute = "end"

Hashable(v) == v.cls # "Unhashable"

\* The detector as one value: the three dicts of self.
Detector(tree, indexed, intervals) ==
    [tree |-> tree, indexed |-> indexed, intervals |-> intervals]

self == Detector(refname_to_tree, refname_to_indexed, refname_to_intervals)

\* Mutant of add: a missing start or end is read as 0 instead of raising.
add_defaults_missing(d, interval) ==
    IF ~HasAttr(interval, "refname") THEN [d |-> d, raised |-> TRUE]
    ELSE LET refname == interval.refname
             known == DictHas(d.tree, refname)
             tree == IF known THEN DictGet(d.tree, refname) ELSE cgranges
             ivs == IF known THEN DictGet(d.intervals, refname) ELSE <<>>
         IN [d |-> Detector(
                      DictSet(d.tree, refname,
                              TreeAdd(tree, interval.start, interval.end, Len(ivs))),
                      DictSet(d.indexed, refname, FALSE),
                      DictSet(d.intervals, refname, Append(ivs, interval))),
             raised |-> FALSE]

\* Mutant of add: the value is hashed when it is stored.
add_hashing(d, interval) ==
    IF ~HasAttr(interval, "refname") \/ ~Hashable(interval)
    THEN [d |-> d, raised |-> TRUE]
    ELSE add_defaults_missing(d, interval)

\* Mutant of add: the value is stored on the contig seen first, if any.
add_first_contig(d, interval) ==
    IF d.tree = <<>> THEN add_defaults_missing(d, interval)
    ELSE add_defaults_missing(d, [interval EXCEPT !.refname = d.tree[1][1]])

\* Mutant of add: the contig's tree and list start afresh with each value.
add_replaces(d, interval) ==
    LET refname == interval.refname
    IN [d |-> Detector(DictSet(d.tree, refname,
                               TreeAdd(cgranges, interval.start, interval.end, 0)),
                       DictSet(d.indexed, refname, FALSE),
                       DictSet(d.intervals, refname, <<interval>>)),
        raised |-> FALSE]

\* OverlapDetector.add on detector d: the detector after the call and whether
\* the call raised.  interval.refname is read first; the dict entries are
\* created and the value appended to the contig's list before the call of
\* tree.add reads interval.start and interval.end.
add(d, interval) ==
    IF ~HasAttr(interval, "refname") THEN [d |-> d, raised |-> TRUE]
    ELSE LET refname == interval.refname
             known == DictHas(d.tree, refname)
             tree == IF known THEN DictGet(d.tree, refname) ELSE cgranges
             ivs == IF known THEN DictGet(d.intervals, refname) ELSE <<>>
             indexed == IF known THEN d.indexed ELSE DictSet(d.indexed, refname, FALSE)
             interval_idx == Len(ivs)
             appended == DictSet(d.intervals, refname, Append(ivs, interval))
         IN IF ~HasAttr(interval, "start") \/ ~HasAttr(interval, "end")
            THEN [d |-> Detector(DictSet(d.tree, refname, tree), indexed, appended),
                  raised |-> TRUE]
            ELSE [d |-> Detector(
                          DictSet(d.tree, refname,
                                  TreeAdd(tree, interval.start, interval.end,
                                          interval_idx)),
                          DictSet(indexed, refname, FALSE),
                          appended),
                  raised |-> FALSE]

\* OverlapDetector.add on self: the three dicts after the call.
add_trees(interval) == add(self, interval).d.tree

add_intervals(interval) == add(self, interval).d.intervals

add_indexed(interval) == add(self, interval).d.indexed

\* Mutant of add_all_from: a failing item is skipped and the loop goes on.
RECURSIVE add_all_skipping(_, _, _)
add_all_skipping(d, intervals, i) ==
    IF i > Len(intervals) THEN [d |-> d, raised |-> FALSE, failed_at |-> 0]
    ELSE LET one == add(d, intervals[i])
             others == add_all_skipping(one.d, intervals, i + 1)
         IN IF one.raised
            THEN [d |-> others.d, raised |-> TRUE, failed_at |-> i]
            ELSE others

\* The loop of add_all from item i (1-based) on: an exception raised by add
\* leaves the loop; failed_at is the item it was raised for.
RECURSIVE add_all_from(_, _, _)
add_all_from(d, intervals, i) ==
    IF i > Len(intervals) THEN [d |-> d, raised |-> FALSE, failed_at |-> 0]
    ELSE LET one == add(d, intervals[i])
         IN IF one.raised
            THEN [d |-> one.d, raised |-> TRUE, failed_at |-> i]
            ELSE add_all_from(one.d, intervals, i + 1)

\* OverlapDetector.add_all.
add_all(d, intervals) == add_all_from(d, intervals, 1)

EmptyDetector == Detector(<<>>, <<>>, <<>>)

\* Mutant of init: the intervals argument is ignored.
init_ignores_intervals(intervals) ==
    [d |-> EmptyDetector, raised |-> FALSE, failed_at |-> 0]

\* OverlapDetector.__init__(intervals): three empty dicts, then add_all when
\* intervals is not None.  The Optional argument is <<>> for None and
\* <<iterable>> otherwise.
init(intervals) ==
    IF intervals = <<>> THEN [d |-> EmptyDetector, raised |-> FALSE, failed_at |-> 0]
    ELSE add_all(EmptyDetector, intervals[1])

\* The loop of from_bed from region i (1-based) on, over the records the
\* BedSource yields.
RECURSIVE from_bed_from(_, _, _)
from_bed_from(d, regions, i) ==
    IF i > Len(regions) THEN [d |-> d, raised |-> FALSE, failed_at |-> 0]
    ELSE LET one == add(d, regions[i])
         IN IF one.raised
            THEN [d |-> one.d, raised |-> TRUE, failed_at |-> i]
            ELSE from_bed_from(one.d, regions, i + 1)

\* OverlapDetector.from_bed(path), regions being the records of the file.
from_bed(regions) == from_bed_from(EmptyDetector, regions, 1)

\* Mutant of index_trees: a query on an unknown contig creates its tree.
index_trees_creates(refname) ==
    IF ~DictHas(refname_to_tree, refname)
    THEN DictSet(refname_to_tree, refname, TreeIndex(cgranges))
    ELSE IF DictGet(refname_to_indexed, refname) THEN refname_to_tree
    ELSE DictSet(refname_to_tree, refname, TreeIndex(DictGet(refname_to_tree, refname)))

\* The trees after a query on refname: the query calls tree.index() when the
\* contig is known and its indexed flag is false.
index_trees(refname) ==
    IF ~DictHas(refname_to_tree, refname) THEN refname_to_tree
    ELSE IF DictGet(refname_to_indexed, refname) THEN refname_to_tree
    ELSE DictSet(refname_to_tree, refname, TreeIndex(DictGet(refname_to_tree, refname)))

\* History only: the contig of refname was queried before and has been added
\* to since, so that its tree holds an index built without the newest entries.
Stale(refname) ==
    /\ DictHas(refname_to_tree, refname)
    /\ DictGet(refname_to_tree, refname).dirty
    /\ DictGet(refname_to_tree, refname).sortedByStart # <<>>

\* Mutant of overlaps_any: an unknown contig is the only case answered False.
overlaps_any_known_contig(interval) == DictHas(refname_to_tree, interval.refname)

\* OverlapDetector.overlaps_any.
overlaps_any(interval) ==
    IF ~DictHas(refname_to_tree, interval.refname) THEN FALSE
    ELSE LET tree == DictGet(index_trees(interval.refname), interval.refname)
         IN TreeOverlap(tree, interval.start, interval.end) # <<>>

\* Mutant of get_overlaps: the query end is taken as inclusive.
get_overlaps_closed_end(interval) ==
    IF ~DictHas(refname_to_tree, interval.refname) THEN <<>>
    ELSE LET tree == DictGet(index_trees(interval.refname), interval.refname)
             ref_intervals == DictGet(refname_to_intervals, interval.refname)
             hits == TreeOverlap(tree, interval.start, interval.end + 1)
             intervals == {ref_intervals[hits[i].label + 1] : i \in 1..Len(hits)}
         IN sorted(SetIter(intervals, hashSeed))

\* Mutant of get_overlaps: the hits are collected in a list, not in a set.
get_overlaps_no_set(interval) ==
    IF ~DictHas(refname_to_tree, interval.refname) THEN <<>>
    ELSE LET tree == DictGet(index_trees(interval.refname), interval.refname)
             ref_intervals == DictGet(refname_to_intervals, interval.refname)
             hits == TreeOverlap(tree, interval.start, interval.end)
         IN sorted([i \in 1..Len(hits) |-> ref_intervals[hits[i].label + 1]])

\* Mutant of get_overlaps: a query that rebuilds the index returns the hits
\* as the tree yields them, neither collapsed nor sorted.
get_overlaps_raw_on_rebuild(interval) ==
    IF ~DictHas(refname_to_tree, interval.refname) THEN <<>>
    ELSE LET before == DictGet(refname_to_tree, interval.refname)
             tree == DictGet(index_trees(interval.refname), interval.refname)
             ref_intervals == DictGet(refname_to_intervals, interval.refname)
             hits == TreeOverlap(tree, interval.start, interval.end)
             intervals == {ref_intervals[hits[i].label + 1] : i \in 1..Len(hits)}
         IN IF before.dirty
            THEN [i \in 1..Len(hits) |-> ref_intervals[hits[i].label + 1]]
            ELSE sorted(SetIter(intervals, hashSeed))

\* OverlapDetector.get_overlaps.
get_overlaps(interval) ==
    IF ~DictHas(refname_to_tree, interval.refname) THEN <<>>
    ELSE LET tree == DictGet(index_trees(interval.refname), interval.refname)
             ref_intervals == DictGet(refname_to_intervals, interval.refname)
             hits == TreeOverlap(tree, interval.start, interval.end)
             intervals == {ref_intervals[hits[i].label + 1] : i \in 1..Len(hits)}
         IN sorted(SetIter(intervals, hashSeed))

\* OverlapDetector.overlaps_any and get_overlaps as functions of the
\* detector they are called on and of the interpreter's hash seed.
tree_of(d, refname) ==
    IF DictGet(d.indexed, refname) THEN DictGet(d.tree, refname)
    ELSE TreeIndex(DictGet(d.tree, refname))

overlaps_any_in(d, interval) ==
    IF ~DictHas(d.tree, interval.refname) THEN FALSE
    ELSE TreeOverlap(tree_of(d, interval.refname), interval.start, interval.end) # <<>>

\* The set "intervals" that get_overlaps builds from the hits.
overlap_set_of(tree, ref_intervals, interval) ==
    LET hits == TreeOverlap(tree, interval.start, interval.end)
    IN {ref_intervals[hits[i].label + 1] : i \in 1..Len(hits)}

overlap_set_in(d, interval) ==
    IF ~DictHas(d.tree, interval.refname) THEN {}
    ELSE overlap_set_of(tree_of(d, interval.refname),
                        DictGet(d.intervals, interval.refname), interval)

get_overlaps_in(d, seed, interval) == sorted(SetIter(overlap_set_in(d, interval), seed))

\* Mutant of get_enclosing_intervals: the two comparisons are strict.
get_enclosing_intervals_strict(interval) ==
    LET results == get_overlaps(interval)
    IN SelectSeq(results, LAMBDA i : interval.start > i.start /\ interval.end < i.end)

\* OverlapDetector.get_enclosing_intervals.
get_enclosing_intervals(interval) ==
    LET results == get_overlaps(interval)
    IN SelectSeq(results, LAMBDA i : interval.start >= i.start /\ interval.end <= i.end)

\* Mutant of get_enclosed: the filter of get_enclosing_intervals is applied.
get_enclosed_swapped(interval) ==
    LET results == get_overlaps(interval)
    IN SelectSeq(results, LAMBDA i : interval.start >= i.start /\ interval.end <= i.end)

\* OverlapDetector.get_enclosed.
get_enclosed(interval) ==
    LET results == get_overlaps(interval)
    IN SelectSeq(results, LAMBDA i : i.start >= interval.start /\ i.end <= interval.end)

Add ==
    \E interval \in AddPool :
        /\ Len(added) < MaxAdds
        /\ refname_to_tree' = add_trees(interval)
        /\ refname_to_intervals' = add_intervals(interval)
        /\ refname_to_indexed' = add_indexed(interval)
        /\ added' = Append(added, interval)
        /\ last' = Call("add", interval, FALSE, <<>>, FALSE)
        /\ UNCHANGED <<hashSeed, made, rest>>

OverlapsAny ==
    \E interval \in QueryPool :
        /\ last' = Call("overlaps_any", interval, overlaps_any(interval), <<>>,
                        Stale(interval.refname))
        /\ refname_to_tree' = index_trees(interval.refname)
        /\ UNCHANGED <<refname_to_indexed, refname_to_intervals, hashSeed, added, made, rest>>

GetOverlaps ==
    \E interval \in QueryPool :
        /\ last' = Call("get_overlaps", interval, FALSE, get_overlaps(interval),
                        Stale(interval.refname))
        /\ refname_to_tree' = index_trees(interval.refname)
        /\ UNCHANGED <<refname_to_indexed, refname_to_intervals, hashSeed, added, made, rest>>

GetEnclosingIntervals ==
    \E interval \in QueryPool :
        /\ last' = Call("get_enclosing_intervals", interval, FALSE,
                        get_enclosing_intervals(interval), Stale(interval.refname))
        /\ refname_to_tree' = index_trees(interval.refname)
        /\ UNCHANGED <<refname_to_indexed, refname_to_intervals, hashSeed, added, made, rest>>

GetEnclosed ==
    \E interval \in QueryPool :
        /\ last' = Call("get_enclosed", interval, FALSE, get_enclosed(interval),
                        Stale(interval.refname))
        /\ refname_to_tree' = index_trees(interval.refname)
        /\ UNCHANGED <<refname_to_indexed, refname_to_intervals, hashSeed, added, made, rest>>

Iterate ==
    /\ last' = Call("iter", NoArg, FALSE, iter, FALSE)
    /\ UNCHANGED <<detector, hashSeed, added, made, rest>>

Next ==
    \/ Add
    \/ OverlapsAny
    \/ GetOverlaps
    \/ GetEnclosingIntervals
    \/ GetEnclosed
    \/ Iterate

Spec == Init /\ [][Next]_vars

\* Each behaviour of SpecInterval makes one construction, with any arguments.
NewInterval ==
    \E refname \in {"chr1", "chr2"}, start \in -1..MaxCoord, end \in -1..(MaxCoord + 1),
       neg \in BOOLEAN, name \in {None, "x"} :
        /\ made.call = "none"
        /\ made' = Construction("Interval", MkInterval(refname, start, end, neg, name),
                                Interval(refname, start, end, neg, name))
        /\ UNCHANGED <<detector, hashSeed, added, last, rest>>

FromBedrecord ==
    \E record \in BedRecords :
        /\ made.call = "none"
        /\ made' = Construction("from_bedrecord", record, from_bedrecord(record))
        /\ UNCHANGED <<detector, hashSeed, added, last, rest>>

FromUcsc ==
    \E string \in UcscStrings, name \in {None, "x"} :
        /\ made.call = "none"
        /\ made' = Construction("from_ucsc", string, from_ucsc(string, name))
        /\ UNCHANGED <<detector, hashSeed, added, last, rest>>

NextInterval ==
    \/ NewInterval
    \/ FromBedrecord
    \/ FromUcsc

SpecInterval == Init /\ [][NextInterval]_vars

(***************************************************************************)
(* Bulk filling, and queries on a detector that may hold values without    *)
(* __hash__.                                                               *)
(***************************************************************************)
\* The values of the contig that the query's tree.overlap reports.
hit_values(interval) ==
    IF ~DictHas(refname_to_tree, interval.refname) THEN <<>>
    ELSE LET tree == DictGet(index_trees(interval.refname), interval.refname)
             ref_intervals == DictGet(refname_to_intervals, interval.refname)
             hits == TreeOverlap(tree, interval.start, interval.end)
         IN [i \in 1..Len(hits) |-> ref_intervals[hits[i].label + 1]]

\* What get_overlaps raises: TypeError ("hash") when the set comprehension
\* meets a hit without __hash__, AttributeError ("attribute") when the sort
\* key reads a missing start, end or refname; "none" when it returns.
get_overlaps_raises(interval) ==
    LET hits == hit_values(interval)
    IN IF \E i \in 1..Len(hits) : ~Hashable(hits[i]) THEN "hash"
       ELSE IF \E i \in 1..Len(hits) :
                   \/ ~HasAttr(hits[i], "start")
                   \/ ~HasAttr(hits[i], "end")
                   \/ ~HasAttr(hits[i], "refname")
            THEN "attribute"
            ELSE "none"

\* OverlapDetector(intervals): when add_all raises, no detector is produced.
Construct ==
    \E items \in BulkItems :
        LET made_by == init(<<items>>)
        IN /\ bulk.op = "none"
           /\ refname_to_tree' = IF made_by.raised THEN <<>> ELSE made_by.d.tree
           /\ refname_to_indexed' = IF made_by.raised THEN <<>> ELSE made_by.d.indexed
           /\ refname_to_intervals' =
                  IF made_by.raised THEN <<>> ELSE made_by.d.intervals
           /\ bulk' = BulkCall("init", items, made_by.raised, made_by.failed_at, <<>>,
                               NoArg, "none", FALSE, <<>>)
           /\ UNCHANGED <<hashSeed, added, last, made, measured, bed, probe, source>>

\* The record sequences a BED file gives.
BedSources == UNION {[1..n -> BedPool] : n \in 0..MaxAdds}

\* OverlapDetector.from_bed(path).
FromBed ==
    \E regions \in BedSources :
        LET made_by == from_bed(regions)
        IN /\ bulk.op = "none"
           /\ refname_to_tree' = IF made_by.raised THEN <<>> ELSE made_by.d.tree
           /\ refname_to_indexed' = IF made_by.raised THEN <<>> ELSE made_by.d.indexed
           /\ refname_to_intervals' =
                  IF made_by.raised THEN <<>> ELSE made_by.d.intervals
           /\ bulk' = BulkCall("from_bed", regions, made_by.raised, made_by.failed_at,
                               <<>>, NoArg, "none", FALSE, <<>>)
           /\ UNCHANGED <<hashSeed, added, last, made, measured, bed, probe, source>>

\* A detector exists: none was asked for yet (OverlapDetector() is implied)
\* or the constructor returned.
Exists == ~(bulk.op \in {"init", "from_bed"} /\ bulk.raised)

AddAll ==
    \E items \in BulkItems :
        LET r == add_all(self, items)
        IN /\ Exists
           /\ Len(iter) + Len(items) <= MaxAdds
           /\ refname_to_tree' = r.d.tree
           /\ refname_to_indexed' = r.d.indexed
           /\ refname_to_intervals' = r.d.intervals
           /\ bulk' = BulkCall("add_all", items, r.raised, r.failed_at, iter,
                               NoArg, "none", FALSE, <<>>)
           /\ UNCHANGED <<hashSeed, added, last, made, measured, bed, probe, source>>

BulkOverlapsAny ==
    \E interval \in QueryPool :
        /\ Exists
        /\ bulk' = BulkCall("overlaps_any", <<>>, FALSE, 0, <<>>, interval, "none",
                            overlaps_any(interval), <<>>)
        /\ refname_to_tree' = index_trees(interval.refname)
        /\ UNCHANGED <<refname_to_indexed, refname_to_intervals, hashSeed, added,
                       last, made, measured, bed, probe, source>>

\* One of the three list queries: get_enclosing_intervals and get_enclosed
\* call get_overlaps first and so raise what it raises.
BulkListQuery(op, interval, result) ==
    LET cause == get_overlaps_raises(interval)
    IN /\ Exists
       /\ bulk' = BulkCall(op, <<>>, cause # "none", 0, <<>>, interval, cause, FALSE,
                           IF cause = "none" THEN result ELSE <<>>)
       /\ refname_to_tree' = index_trees(interval.refname)
       /\ UNCHANGED <<refname_to_indexed, refname_to_intervals, hashSeed, added,
                      last, made, measured, bed, probe, source>>

BulkGetOverlaps ==
    \E interval \in QueryPool :
        BulkListQuery("get_overlaps", interval, get_overlaps(interval))

BulkGetEnclosingIntervals ==
    \E interval \in QueryPool :
        BulkListQuery("get_enclosing_intervals", interval,
                      get_enclosing_intervals(interval))

BulkGetEnclosed ==
    \E interval \in QueryPool :
        BulkListQuery("get_enclosed", interval, get_enclosed(interval))

NextBulk ==
    \/ Construct
    \/ FromBed
    \/ AddAll
    \/ BulkOverlapsAny
    \/ BulkGetOverlaps
    \/ BulkGetEnclosingIntervals
    \/ BulkGetEnclosed

SpecBulk == Init /\ [][NextBulk]_vars

(***************************************************************************)
(* BedRecord conversions and BED files.  Each behaviour of SpecConvert     *)
(* makes one conversion; each behaviour of SpecBed writes one file and     *)
(* reads it back.                                                          *)
(***************************************************************************)
\* BedRecord.from_interval(Interval.from_bedrecord(record)).
RoundTrip ==
    \E record \in BedRecords :
        LET interval == from_bedrecord(record)
        IN /\ bed.op = "none"
           /\ bed' = [op |-> "round_trip", record |-> record, interval |-> interval,
                      back |-> IF interval.raised THEN [raised |-> TRUE, obj |-> NoArg]
                               ELSE from_interval(interval.obj)]
           /\ UNCHANGED <<detector, hashSeed, added, last, made, measured, bulk, probe, source>>

\* BedRecord.from_interval(interval) on an Interval that exists.
FromInterval ==
    \E i \in Intervals, neg \in BOOLEAN, name \in {None, "x"} :
        LET interval == [i EXCEPT !.negative = neg, !.name = name]
        IN /\ bed.op = "none"
           /\ bed' = [op |-> "from_interval", interval |-> interval,
                      back |-> from_interval(interval)]
           /\ UNCHANGED <<detector, hashSeed, added, last, made, measured, bulk, probe, source>>

\* The arguments BedRecord is constructed with: also a negative start, an
\* end not above the start, one thick bound without the other and block
\* fields that do not go together.
BedRecordArgs ==
    { BedFields(<<"c">>, start, end, <<>>, <<>>, <<>>, thick_start, thick_end, <<>>,
                block_count, block_sizes, block_starts) :
        start \in (0 - 1)..1, end \in 0..MaxCoord,
        thick_start \in {<<>>, <<0>>}, thick_end \in {<<>>, <<1>>},
        block_count \in {<<>>, <<1>>, <<2>>},
        block_sizes \in {<<>>, <<(<<1>>)>>, <<(<<1, 1>>)>>},
        block_starts \in {<<>>, <<(<<0>>)>>, <<(<<0, 1>>)>>} }

\* BedRecord(**args): the attrs __init__ sets the fields and runs the
\* validators; an AssertionError leaves no object.
BedRecord_init(args) ==
    IF validators(args) THEN [raised |-> FALSE, obj |-> <<args>>]
    ELSE [raised |-> TRUE, obj |-> <<>>]

NewBedRecord ==
    \E args \in BedRecordArgs :
        LET r == BedRecord_init(args)
        IN /\ bed.op = "none"
           /\ bed' = [op |-> "new_bedrecord", args |-> args, raised |-> r.raised,
                      obj |-> r.obj]
           /\ UNCHANGED <<detector, hashSeed, added, last, made, measured, bulk, probe, source>>

NextConvert ==
    \/ RoundTrip
    \/ FromInterval
    \/ NewBedRecord

SpecConvert == Init /\ [][NextConvert]_vars

\* BedWriter(path, num_fields).write_all(records, truncate, add_missing),
\* then list(BedSource(path)).
WriteRead ==
    \E records \in BedFileContents,
       num_fields \in {<<>>} \cup {<<n>> : n \in 3..MAX_BED_FIELDS},
       truncate \in BOOLEAN, add_missing \in BOOLEAN :
        LET written == write_all(num_fields, records, truncate, add_missing)
            read == iter_lines(written.lines, 1)
        IN /\ bed.op = "none"
           /\ bed' = [op |-> "write_read", records |-> records,
                      num_fields |-> num_fields, truncate |-> truncate,
                      add_missing |-> add_missing, write_raised |-> written.raised,
                      lines |-> written.lines, read_raised |-> read.raised,
                      parsed |-> read.records]
           /\ UNCHANGED <<detector, hashSeed, added, last, made, measured, bulk, probe, source>>

NextBed == WriteRead

SpecBed == Init /\ [][NextBed]_vars

(***************************************************************************)
(* SpecTree: one tree is given entries, indexed and queried in any order.  *)
(***************************************************************************)
\* tree.add(refname, start, end, label), the label being the entry's index.
ProbeAdd ==
    \E span \in TreeSpans :
        /\ Len(probe.tree.entries) < MaxEntries
        /\ probe' = TreeCall(TreeAdd(probe.tree, span[1], span[2],
                                     Len(probe.tree.entries)),
                             "add", 0, 0, <<>>)
        /\ UNCHANGED <<detector, hashSeed, added, last, made, measured, bulk, bed, source>>

\* tree.index().
ProbeIndex ==
    /\ probe.tree.entries # <<>>
    /\ probe' = TreeCall(TreeIndex(probe.tree), "index", 0, 0, <<>>)
    /\ UNCHANGED <<detector, hashSeed, added, last, made, measured, bulk, bed, source>>

\* tree.index(), then tree.overlap(refname, qstart, qend), as the detector's
\* queries call them.
ProbeOverlap ==
    \E q \in TreeQueries :
        /\ probe.tree.entries # <<>>
        /\ probe' = TreeCall(TreeIndex(probe.tree), "overlap", q[1], q[2],
                             TreeOverlap(probe.tree, q[1], q[2]))
        /\ UNCHANGED <<detector, hashSeed, added, last, made, measured, bulk, bed, source>>

NextTree ==
    \/ ProbeAdd
    \/ ProbeIndex
    \/ ProbeOverlap

SpecTree == Init /\ [][NextTree]_vars

(***************************************************************************)
(* SpecSource: one BedSource is made, opened, closed and iterated by any   *)
(* number of iterators in any order.  "with source:" is open() on entry    *)
(* and close() on exit.                                                    *)
(***************************************************************************)
NewSource ==
    \E file \in SourceFiles :
        /\ source.op = "none"
        /\ \/ source' = BedSource_path(file)
           \/ \E closed \in BOOLEAN : source' = BedSource_io(file, closed)
        /\ UNCHANGED <<detector, hashSeed, added, last, made, measured, bulk, bed, probe>>

SourceOpen ==
    /\ source.op # "none"
    /\ Len(source.handles) < MaxHandles
    /\ source' = [open(source).s EXCEPT !.op = "open", !.raised = open(source).raised,
                                        !.it = 0]
    /\ UNCHANGED <<detector, hashSeed, added, last, made, measured, bulk, bed, probe>>

SourceClose ==
    /\ source.op # "none"
    /\ source' = [close(source).s EXCEPT !.op = "close", !.raised = close(source).raised,
                                         !.it = 0]
    /\ UNCHANGED <<detector, hashSeed, added, last, made, measured, bulk, bed, probe>>

\* iter(source): the generator object is made, its body has not started.
SourceIter ==
    /\ source.op # "none"
    /\ Len(source.iters) < MaxIters
    /\ source' = [source EXCEPT !.op = "iter", !.raised = FALSE, !.it = 0,
                                !.iters = Append(@, NewIterator)]
    /\ UNCHANGED <<detector, hashSeed, added, last, made, measured, bulk, bed, probe>>

SourceNext ==
    \E k \in 1..Len(source.iters) :
        /\ source.op # "none"
        /\ source.iters[k].state \in {"new", "running"}
        /\ Len(source.handles) < MaxHandles \/ source.file_is_open
               \/ source.iters[k].state = "running"
        /\ source' = [iter_next(source, k).s EXCEPT
                          !.op = "next", !.raised = iter_next(source, k).raised,
                          !.it = k]
        /\ UNCHANGED <<detector, hashSeed, added, last, made, measured, bulk, bed, probe>>

NextSource ==
    \/ NewSource
    \/ SourceOpen
    \/ SourceClose
    \/ SourceIter
    \/ SourceNext

SpecSource == Init /\ [][NextSource]_vars

\* Each behaviour of SpecMeasure makes one call on Intervals that exist.
Length ==
    \E a \in Intervals :
        /\ measured.op = "none"
        /\ measured' = Measure("length", a, a, length(a))
        /\ UNCHANGED <<detector, hashSeed, added, last, made, bulk, bed, probe, source>>

OverlapWith ==
    \E a \in Intervals, b \in Intervals :
        /\ measured.op = "none"
        /\ measured' = Measure("overlap", a, b, overlap(a, b))
        /\ UNCHANGED <<detector, hashSeed, added, last, made, bulk, bed, probe, source>>

NextMeasure ==
    \/ Length
    \/ OverlapWith

SpecMeasure == Init /\ [][NextMeasure]_vars

(***************************************************************************)
(* Vocabulary of the properties.  These are stated over the history        *)
(* `added` and the recorded results, not over the detector's own dicts.    *)
(***************************************************************************)
InList(v, s) == \E i \in 1..Len(s) : s[i] = v

CountIn(s, v) == Cardinality({i \in 1..Len(s) : s[i] = v})

\* The values added on contig refname, in the order of the add calls.
StoredOn(refname) == SelectSeq(added, LAMBDA v : v.refname = refname)

\* The glossary's overlap of two spans of one contig.
Overlap(a, b) == Max2(a.start, b.start) < Min2(a.end, b.end)

WellFormed(a) == a.start < a.end

\* The query's per-entry test (specification 4.3, step 3).
Matches(stored, query) == stored.start < query.end /\ stored.end > query.start

Encloses(outer, inner) == outer.start <= inner.start /\ inner.end <= outer.end

\* The key tuple of the documentation, compared component by component.
IsNegativeStrand(v) == v.cls = "Interval" /\ v.negative

KeyOf(v) == <<v.start, v.end, IF IsNegativeStrand(v) THEN 1 ELSE 0,
              IF v.refname = "chr1" THEN 1 ELSE 2>>

RECURSIVE TupleLess(_, _)
TupleLess(a, b) ==
    IF a = <<>> \/ b = <<>> THEN FALSE
    ELSE Head(a) < Head(b) \/ (Head(a) = Head(b) /\ TupleLess(Tail(a), Tail(b)))

\* The reference names of `added`, each once, in order of first appearance.
RECURSIVE FirstSeen(_)
FirstSeen(s) ==
    IF s = <<>> THEN <<>>
    ELSE LET before == FirstSeen(SubSeq(s, 1, Len(s) - 1))
             r == s[Len(s)].refname
         IN IF InList(r, before) THEN before ELSE Append(before, r)

ExpectedIteration ==
    LET contigs == FirstSeen(added)
    IN Chain([i \in 1..Len(contigs) |-> StoredOn(contigs[i])])

IsGetOverlaps == last.op = "get_overlaps"

(***************************************************************************)
(* C1.  As stated: after any interleaving of adds and queries, a stored    *)
(* value S on the query's contig is in get_overlaps(Q) iff                 *)
(* max(S.start, Q.start) < min(S.end, Q.end).                              *)
(***************************************************************************)
C1_AsStated ==
    IsGetOverlaps =>
        \A k \in 1..Len(added) :
            added[k].refname = last.arg.refname =>
                (InList(added[k], last.list) <=> Overlap(added[k], last.arg))

\* C1, amended: the equivalence holds for every stored value and every query
\* whose start is below its end, after any interleaving of adds and queries;
\* a query issued after an add that follows an earlier query reflects the add.
C1_OverlapsExactlyWellFormed ==
    (IsGetOverlaps /\ WellFormed(last.arg)) =>
        \A k \in 1..Len(added) :
            (added[k].refname = last.arg.refname /\ WellFormed(added[k])) =>
                (InList(added[k], last.list) <=> Overlap(added[k], last.arg))

\* A query on a contig that was queried, then added to: the newest value is
\* returned, and an older one that does not overlap is not.
C1_Witness ==
    /\ IsGetOverlaps
    /\ last.stale
    /\ WellFormed(last.arg)
    /\ Len(added) >= 2
    /\ added[Len(added)].refname = last.arg.refname
    /\ WellFormed(added[Len(added)])
    /\ InList(added[Len(added)], last.list)
    /\ \E k \in 1..Len(added) :
           /\ added[k].refname = last.arg.refname
           /\ WellFormed(added[k])
           /\ ~InList(added[k], last.list)

C3_NoEqualElements ==
    IsGetOverlaps =>
        \A i, j \in 1..Len(last.list) : i # j => last.list[i] # last.list[j]

C3_Witness ==
    /\ IsGetOverlaps
    /\ \E v \in AddPool : CountIn(added, v) >= 2 /\ InList(v, last.list)

(***************************************************************************)
(* C4.  As stated: a value inserted by two add calls is stored twice and,  *)
(* queried back with get_overlaps, is returned twice.                      *)
(***************************************************************************)
C4_AsStated ==
    (IsGetOverlaps /\ CountIn(added, last.arg) = 2) =>
        /\ CountIn(iter, last.arg) = 2
        /\ CountIn(last.list, last.arg) = 2

\* C4, amended: a value inserted by two add calls is stored twice (there is
\* no insertion-level deduplication: iteration yields it twice), and querying
\* it back with get_overlaps returns it at most once, exactly once when its
\* start is below its end.
C4_StoredTwiceReturnedOnce ==
    (IsGetOverlaps /\ CountIn(added, last.arg) = 2) =>
        /\ CountIn(iter, last.arg) = 2
        /\ CountIn(last.list, last.arg) <= 1
        /\ WellFormed(last.arg) => CountIn(last.list, last.arg) = 1

C4_Witness ==
    /\ IsGetOverlaps
    /\ CountIn(added, last.arg) = 2
    /\ CountIn(last.list, last.arg) = 1

(***************************************************************************)
(* C5.  The list returned by get_overlaps is in non-decreasing order of    *)
(* (start, end, negative-strand flag, refname): positive sorts before      *)
(* negative and a value without a strand attribute counts as positive.     *)
(***************************************************************************)
C5_NonDecreasingKeys ==
    IsGetOverlaps =>
        \A i \in 1..(Len(last.list) - 1) :
            ~TupleLess(KeyOf(last.list[i + 1]), KeyOf(last.list[i]))

\* A value without a strand attribute directly before a negative one of the
\* same start and end.
C5_Witness ==
    /\ IsGetOverlaps
    /\ \E i \in 1..(Len(last.list) - 1) :
           /\ last.list[i].cls = "Unstranded"
           /\ IsNegativeStrand(last.list[i + 1])
           /\ last.list[i].start = last.list[i + 1].start
           /\ last.list[i].end = last.list[i + 1].end

(***************************************************************************)
(* C6.  As stated: when get_overlaps returns two or more elements, each    *)
(* element's key is strictly smaller than the key of the next one.         *)
(***************************************************************************)
C6_AsStated ==
    IsGetOverlaps =>
        \A i \in 1..(Len(last.list) - 1) :
            TupleLess(KeyOf(last.list[i]), KeyOf(last.list[i + 1]))

\* C6, amended: each element's key is strictly smaller than the key of the
\* next one, except that two neighbours may share a key when they are
\* distinct values, differing in a field that is not part of the key (the
\* name, or the type of the value).
C6_StrictUpToKeyTies ==
    IsGetOverlaps =>
        \A i \in 1..(Len(last.list) - 1) :
            \/ TupleLess(KeyOf(last.list[i]), KeyOf(last.list[i + 1]))
            \/ /\ KeyOf(last.list[i]) = KeyOf(last.list[i + 1])
               /\ last.list[i] # last.list[i + 1]
               /\ \/ last.list[i].name # last.list[i + 1].name
                  \/ last.list[i].cls # last.list[i + 1].cls

C6_Witness ==
    /\ IsGetOverlaps
    /\ Len(last.list) >= 3
    /\ \E i \in 1..(Len(last.list) - 1) :
           KeyOf(last.list[i]) = KeyOf(last.list[i + 1])
    /\ \E i \in 1..(Len(last.list) - 1) :
           TupleLess(KeyOf(last.list[i]), KeyOf(last.list[i + 1]))

(***************************************************************************)
(* C7.  Iterating the detector yields every stored value as many times as  *)
(* it was added: contigs in the order of their first insertion and, within *)
(* a contig, values in insertion order.                                    *)
(***************************************************************************)
C7_IterationOrder ==
    /\ iter = ExpectedIteration
    /\ last.op = "iter" => last.list = ExpectedIteration

\* chr2 was inserted first, then chr1, then chr2 again with an equal value.
C7_Witness ==
    /\ last.op = "iter"
    /\ Len(added) = 3
    /\ added[1] = added[3]
    /\ added[1].refname = "chr2"
    /\ added[2].refname = "chr1"
    /\ last.list = <<added[1], added[3], added[2]>>

C11_LengthAndOverlap ==
    /\ measured.op = "length" =>
           measured.result = measured.a.end - measured.a.start
    /\ measured.op = "overlap" =>
           LET a == measured.a
               b == measured.b
           IN /\ measured.result =
                     (IF a.refname = b.refname
                      THEN Max2(0, Min2(a.end, b.end) - Max2(a.start, b.start))
                      ELSE 0)
              /\ measured.result = overlap(b, a)
              /\ measured.result <= length(a)
              /\ measured.result <= length(b)

\* Two Intervals that share some but not all of their bases.
C11_Witness ==
    /\ measured.op = "overlap"
    /\ measured.result > 0
    /\ measured.result < length(measured.a)
    /\ measured.result < length(measured.b)

(***************************************************************************)
(* C12.  A query on a reference name that was never inserted returns False *)
(* (overlaps_any) or the empty list (the three list queries), creates no   *)
(* per-contig entry and leaves the three dicts unchanged.                  *)
(***************************************************************************)
QueryOps == {"overlaps_any", "get_overlaps", "get_enclosing_intervals", "get_enclosed"}

C12_UnknownContigNoEffect ==
    [][ (last'.op \in QueryOps /\ ~DictHas(refname_to_tree, last'.arg.refname)) =>
            /\ last'.any = FALSE
            /\ last'.list = <<>>
            /\ ~DictHas(refname_to_tree', last'.arg.refname)
            /\ ~DictHas(refname_to_indexed', last'.arg.refname)
            /\ ~DictHas(refname_to_intervals', last'.arg.refname)
            /\ detector' = detector ]_vars

\* A detector holding values of another contig is asked about a contig it
\* has never seen.
C12_Witness ==
    /\ last.op \in QueryOps
    /\ added # <<>>
    /\ \A k \in 1..Len(added) : added[k].refname # last.arg.refname
    /\ ~DictHas(refname_to_tree, last.arg.refname)

(***************************************************************************)
(* C13.  The same query asked twice with no add in between returns the     *)
(* same result: the list a get_overlaps call returned (the boolean an      *)
(* overlaps_any call returned) is what the same call returns when made     *)
(* again, and the answer to every query is fixed by the values added so    *)
(* far, which no query changes.                                            *)
(***************************************************************************)
AnswerOf(q) ==
    sorted(SetIter({added[k] : k \in {i \in 1..Len(added) :
                                        /\ added[i].refname = q.refname
                                        /\ Matches(added[i], q)}}, hashSeed))

C13_RepeatedQuerySameResult ==
    /\ last.op = "get_overlaps" => get_overlaps(last.arg) = last.list
    /\ last.op = "overlaps_any" => overlaps_any(last.arg) = last.any
    /\ \A q \in QueryPool :
           /\ get_overlaps(q) = AnswerOf(q)
           /\ overlaps_any(q) = (AnswerOf(q) # <<>>)

\* A query has returned two or more values from a contig that had been
\* added to since its index was last built.
C13_Witness ==
    /\ IsGetOverlaps
    /\ last.stale
    /\ Len(last.list) >= 2
    /\ get_overlaps(last.arg) = last.list

(***************************************************************************)
(* C14.  As stated: after a query on a contig that holds values, the       *)
(* contig is Indexed: its indexed flag is true and its tree is not dirty.  *)
(***************************************************************************)
C14_AsStated ==
    (last.op \in QueryOps /\ DictHas(refname_to_tree, last.arg.refname)) =>
        /\ DictGet(refname_to_indexed, last.arg.refname) = TRUE
        /\ ~DictGet(refname_to_tree, last.arg.refname).dirty

(***************************************************************************)
(* Vocabulary for the bulk operations.                                     *)
(***************************************************************************)
Faulty(v) == \E attribute \in {"refname", "start", "end"} : ~HasAttr(v, attribute)

Complete(v) == ~Faulty(v)

\* The position of the first item that lacks an attribute, 0 when none does.
FirstFaulty(items) ==
    IF \E i \in 1..Len(items) : Faulty(items[i])
    THEN CHOOSE i \in 1..Len(items) :
             Faulty(items[i]) /\ \A j \in 1..(i - 1) : Complete(items[j])
    ELSE 0

\* The complete values of list s that are on contig refname, in order.
CompleteOn(s, refname) ==
    SelectSeq(s, LAMBDA v : Complete(v) /\ v.refname = refname)

TreeEntries(refname) ==
    IF DictHas(refname_to_tree, refname)
    THEN DictGet(refname_to_tree, refname).entries
    ELSE <<>>

ListQueryOps == {"get_overlaps", "get_enclosing_intervals", "get_enclosed"}

(***************************************************************************)
(* C15.  add_all is not atomic: when it raises for item m, the items       *)
(* before m are stored (iteration yields them after the earlier values, in *)
(* order, and a query finds each of them) and no item after m is stored.   *)
(***************************************************************************)
C15_AddAllNotAtomic ==
    (bulk.op = "add_all" /\ bulk.raised) =>
        LET m == bulk.failed_at
            done == SubSeq(bulk.items, 1, m - 1)
        IN /\ m >= 1
           /\ m = FirstFaulty(bulk.items)
           /\ \A refname \in {"chr1", "chr2"} :
                  /\ CompleteOn(iter, refname) =
                         CompleteOn(bulk.before, refname) \o CompleteOn(done, refname)
                  /\ Len(TreeEntries(refname)) = Len(CompleteOn(iter, refname))
           /\ \A i \in 1..Len(done) : overlaps_any(done[i])
           /\ Len(iter) = Len(bulk.before) + (m - 1)
                              + (IF HasAttr(bulk.items[m], "refname") THEN 1 ELSE 0)

\* add_all raised for its second item of three.
C15_Witness ==
    /\ bulk.op = "add_all"
    /\ bulk.raised
    /\ bulk.failed_at = 2
    /\ Len(bulk.items) = 3
    /\ Complete(bulk.items[3])

(***************************************************************************)
(* C16.  A value that lacks refname, start or end makes add raise when it  *)
(* is added (add_all and the constructor raise at the first such item),    *)
(* and no query ever raises for a missing attribute: every value a tree    *)
(* entry refers to has all three.                                          *)
(***************************************************************************)
C16_MissingAttributeFailsAtAdd ==
    /\ bulk.op \in {"add_all", "init"} =>
           /\ bulk.raised <=> \E i \in 1..Len(bulk.items) : Faulty(bulk.items[i])
           /\ bulk.failed_at = FirstFaulty(bulk.items)
    /\ bulk.op \in QueryOps => bulk.cause # "attribute"
    /\ \A q \in QueryPool : get_overlaps_raises(q) # "attribute"
    /\ \A refname \in {"chr1", "chr2"} :
           \A i \in 1..Len(TreeEntries(refname)) :
               Complete(DictGet(refname_to_intervals, refname)
                            [TreeEntries(refname)[i].label + 1])

\* A list query returns values from a contig whose list also holds a value
\* for which add raised.
C16_Witness ==
    /\ bulk.op \in ListQueryOps
    /\ ~bulk.raised
    /\ bulk.list # <<>>
    /\ \E i \in 1..Len(iter) :
           Faulty(iter[i]) /\ iter[i].refname = bulk.arg.refname

C18_BulkConstructorsAreAddAll ==
    bulk.op \in {"init", "from_bed"} =>
        LET filled == add_all(EmptyDetector, bulk.items)
        IN /\ bulk.raised = filled.raised
           /\ bulk.failed_at = filled.failed_at
           /\ ~bulk.raised =>
                  /\ self = filled.d
                  /\ iter = Chain(DictValues(filled.d.intervals))

\* from_bed has been given two different records and returned.
C18_Witness ==
    /\ bulk.op = "from_bed"
    /\ ~bulk.raised
    /\ Len(bulk.items) = 2
    /\ bulk.items[1] # bulk.items[2]
    /\ iter = bulk.items

(***************************************************************************)
(* C19.  As stated: for every BedRecord r, from_interval(from_bedrecord(r))*)
(* has r's chrom, start, end and name, and r's strand with a missing       *)
(* strand turned Positive; from_bedrecord sets negative exactly when the   *)
(* strand is Negative.                                                     *)
(***************************************************************************)
RoundTripPreserves ==
    /\ ~bed.interval.raised
    /\ ~bed.back.raised
    /\ bed.back.obj.chrom = bed.record.chrom
    /\ bed.back.obj.start = bed.record.start
    /\ bed.back.obj.end = bed.record.end
    /\ bed.back.obj.name = bed.record.name
    /\ bed.back.obj.strand =
           (IF bed.record.strand = None THEN BedStrandPositive ELSE bed.record.strand)
    /\ bed.interval.obj.negative <=> bed.record.strand = BedStrandNegative

AgreeOnFirst(n, a, b) ==
    LET fa == <<a.chrom, a.start, a.end, a.name, a.score, a.strand, a.thick_start,
                a.thick_end, a.item_rgb, a.block_count, a.block_sizes, a.block_starts>>
        fb == <<b.chrom, b.start, b.end, b.name, b.score, b.strand, b.thick_start,
                b.thick_end, b.item_rgb, b.block_count, b.block_sizes, b.block_starts>>
    IN SubSeq(fa, 1, n) = SubSeq(fb, 1, n)

C20_AsStated ==
    (bed.op = "write_read" /\ bed.num_fields # <<>> /\ bed.truncate /\ bed.add_missing) =>
        LET n == bed.num_fields[1]
        IN /\ ~bed.write_raised
           /\ ~bed.read_raised
           /\ Len(bed.parsed) = Len(bed.records)
           /\ \A i \in 1..Len(bed.parsed) :
                  /\ AgreeOnFirst(n, bed.parsed[i], bed.records[i])
                  /\ as_bed_line(bed.parsed[i], n) = as_bed_line(bed.records[i], n)

(***************************************************************************)
(* C21.  As stated: constructing a BedRecord fails, and produces no        *)
(* object, when end <= start, when the start is negative, or when exactly  *)
(* one of thick_start / thick_end is defined, a block list is defined      *)
(* without block_count, or block_count is defined without both lists or    *)
(* with a list of another length.                                          *)
(***************************************************************************)
InconsistentGroups(r) ==
    \/ (r.thick_start = <<>>) # (r.thick_end = <<>>)
    \/ r.block_count = <<>> /\ (r.block_sizes # <<>> \/ r.block_starts # <<>>)
    \/ /\ r.block_count # <<>>
       /\ \/ r.block_sizes = <<>>
          \/ r.block_starts = <<>>
          \/ Len(r.block_sizes[1]) # r.block_count[1]
          \/ Len(r.block_starts[1]) # r.block_count[1]

C21_AsStated ==
    bed.op = "new_bedrecord" =>
        ((bed.args.end <= bed.args.start \/ bed.args.start < 0
              \/ InconsistentGroups(bed.args))
            => bed.raised /\ bed.obj = <<>>)

(***************************************************************************)
(* C22.  As stated: add validates the interval before appending it, so     *)
(* every entry stored in the detector, of whatever type, satisfies         *)
(* 0 <= start < end.                                                       *)
(***************************************************************************)
C22_AsStated ==
    \A i \in 1..Len(iter) : 0 <= iter[i].start /\ iter[i].start < iter[i].end

(***************************************************************************)
(* C27.  As stated: a failed add leaves the detector unchanged.  A call    *)
(* of add_all with one item is one call of add: when it raises, the three  *)
(* dicts (and with them the iteration output, the known contigs and every  *)
(* query result) are as before the call.                                   *)
(***************************************************************************)
C27_AsStated ==
    [][(bulk'.op = "add_all" /\ Len(bulk'.items) = 1 /\ bulk'.raised)
           => UNCHANGED detector]_vars

(***************************************************************************)
(* C23.  The pruned depth-first traversal emits exactly the entries with   *)
(* start < qend and end > qstart, each exactly once: the set a scan of all *)
(* entries emits.  Checked for the overlap call made, and on every indexed *)
(* tree for all bounds from 0 to MaxEntries + 1.                           *)
(***************************************************************************)
\* The labels (original indices) a scan of all entries emits.
ScanLabels(entries, qstart, qend) ==
    {entries[i].label : i \in {j \in 1..Len(entries) :
                                  entries[j].start < qend /\ entries[j].end > qstart}}

EmitsScan(hits, entries, qstart, qend) ==
    /\ {hits[i].label : i \in 1..Len(hits)} = ScanLabels(entries, qstart, qend)
    /\ \A i, j \in 1..Len(hits) : hits[i].label = hits[j].label => i = j

C23_TraversalEmitsScan ==
    /\ probe.op = "overlap" =>
           EmitsScan(probe.hits, probe.tree.entries, probe.qstart, probe.qend)
    /\ ~probe.tree.dirty =>
           \A qstart, qend \in 0..(MaxEntries + 1) :
               EmitsScan(Traverse(probe.tree, 0, qstart, qend), probe.tree.entries,
                         qstart, qend)

\* A query on a tree of four entries, of which it emits some and not others,
\* among them an entry below a pruned node.
C23_Witness ==
    /\ probe.op = "overlap"
    /\ Len(probe.tree.entries) >= 4
    /\ probe.hits # <<>>
    /\ Len(probe.hits) < Len(probe.tree.entries)
    /\ \E i \in 1..Len(probe.tree.maxEndAugment) :
           probe.tree.maxEndAugment[i] <= probe.qstart

(***************************************************************************)
(* C24.  After ensureIndexed, sortedByStart is a permutation of entries    *)
(* ordered by start ascending with ties in insertion order, maxEndAugment  *)
(* of every node is the maximum end over the node and all its descendants, *)
(* and the bottom-up pass reads a child's value only after computing it.   *)
(***************************************************************************)
C24_IndexedTree ==
    ~probe.tree.dirty =>
        LET entries == probe.tree.entries
            s == probe.tree.sortedByStart
        IN /\ Len(s) = Len(entries)
           /\ \A i \in 1..Len(entries) : CountIn(s, entries[i]) = 1
           /\ \A i, j \in 1..Len(s) :
                  i < j => \/ s[i].start < s[j].start
                           \/ s[i].start = s[j].start /\ s[i].label < s[j].label
           /\ Len(probe.tree.maxEndAugment) = Len(s)
           /\ \A i \in 1..Len(s) :
                  probe.tree.maxEndAugment[i] = SubtreeMaxEnd(s, i - 1)
           /\ ~ReadsEarly(s, BottomUp(s))

\* An indexed tree of four entries, given out of start order, with two equal
\* starts, in which an inner node's augment comes from a descendant.
C24_Witness ==
    /\ probe.op = "index"
    /\ Len(probe.tree.entries) >= 4
    /\ probe.tree.sortedByStart # probe.tree.entries
    /\ \E i, j \in 1..Len(probe.tree.sortedByStart) :
           i # j /\ probe.tree.sortedByStart[i].start = probe.tree.sortedByStart[j].start
    /\ probe.tree.maxEndAugment[1] > probe.tree.sortedByStart[1].end

(***************************************************************************)
(* C25.  As stated: the query's per-entry test, start < qend and           *)
(* end > qstart, agrees with the overlap definition                        *)
(* max(start1, start2) < min(end1, end2) for every stored entry and every  *)
(* query span the query operations accept, a query with start = end        *)
(* included.                                                               *)
(***************************************************************************)
\* The glossary's overlap of an entry and the query bounds.
OverlapBounds(e, qstart, qend) == Max2(e.start, qstart) < Min2(e.end, qend)

TestAgrees(e, qstart, qend) ==
    EntryOverlaps(e, qstart, qend) <=> OverlapBounds(e, qstart, qend)

C25_AsStated ==
    probe.op = "overlap" =>
        \A i \in 1..Len(probe.tree.entries) :
            TestAgrees(probe.tree.entries[i], probe.qstart, probe.qend)

\* C25, amended: the test agrees with the definition for every stored entry
\* and every query span that both have start < end.
C25_TestAgreesWellFormed ==
    probe.op = "overlap" =>
        \A i \in 1..Len(probe.tree.entries) :
            LET e == probe.tree.entries[i]
            IN (e.start < e.end /\ probe.qstart < probe.qend) =>
                   TestAgrees(e, probe.qstart, probe.qend)

\* A query with start < end on a tree that stores an entry it overlaps and
\* an entry it only touches.
C25_Witness ==
    /\ probe.op = "overlap"
    /\ probe.qstart < probe.qend
    /\ \E i, j \in 1..Len(probe.tree.entries) :
           LET e == probe.tree.entries[i]
               f == probe.tree.entries[j]
           IN /\ e.start < e.end /\ OverlapBounds(e, probe.qstart, probe.qend)
              /\ f.start < f.end /\ f.start = probe.qend

(***************************************************************************)
(* C30.  As stated: get_overlaps is a function of the added values and the *)
(* query alone: whatever the interpreter's hash seed, the detector returns *)
(* the same list in the same order, also when distinct stored values share *)
(* the sort key.                                                           *)
(***************************************************************************)
C30_AsStated ==
    IsGetOverlaps =>
        \A seed \in HashSeeds : get_overlaps_in(self, seed, last.arg) = last.list

(***************************************************************************)
(* C28.  Contigs are isolated: an add of a value with refname A changes,   *)
(* for every other contig, neither its stored entries and their order, nor *)
(* its tree and indexed flag, nor the result of a query on it (the         *)
(* enclosing and enclosed queries filter the result of get_overlaps).      *)
(***************************************************************************)
Refnames == {"chr1", "chr2"}

\* What the detector d holds for the contig refname.
Contig(d, refname) ==
    IF DictHas(d.tree, refname)
    THEN <<DictGet(d.tree, refname), DictGet(d.indexed, refname),
           DictGet(d.intervals, refname)>>
    ELSE <<>>

\* The detector in the next state.
selfNext == Detector(refname_to_tree', refname_to_indexed', refname_to_intervals')

C28_ContigsIsolated ==
    [][(last'.op = "add" /\ added' # added) =>
           /\ \A refname \in Refnames \ {last'.arg.refname} :
                  Contig(selfNext, refname) = Contig(self, refname)
           /\ \A q \in {x \in QueryPool : x.refname # last'.arg.refname} :
                  /\ overlaps_any_in(selfNext, q) = overlaps_any_in(self, q)
                  /\ get_overlaps_in(selfNext, hashSeed, q)
                         = get_overlaps_in(self, hashSeed, q)]_vars

\* A value has been added on chr1 while chr2 holds a value a query finds.
C28_Witness ==
    /\ last.op = "add"
    /\ last.arg.refname = "chr1"
    /\ DictHas(refname_to_intervals, "chr2")
    /\ \E q \in QueryPool : q.refname = "chr2" /\ get_overlaps(q) # <<>>

(***************************************************************************)
(* C29.  The index is append-only: across every step the iteration output  *)
(* before is a sub-sequence of the output after, no contig is removed, and *)
(* for every query the set of values get_overlaps returns (the set it      *)
(* sorts) never loses an element.  A step that leaves the three dicts as   *)
(* they are changes none of these; a query on a contig whose list and      *)
(* indexed tree are as before returns what it returned; a query on a       *)
(* contig not yet known returns nothing that could be lost.                *)
(***************************************************************************)
RECURSIVE IsSubsequence(_, _)
IsSubsequence(a, b) ==
    IF a = <<>> THEN TRUE
    ELSE IF b = <<>> THEN FALSE
    ELSE IF Head(a) = Head(b) THEN IsSubsequence(Tail(a), Tail(b))
    ELSE IsSubsequence(a, Tail(b))

C29_AppendOnly ==
    [][\/ UNCHANGED detector
       \/ /\ IsSubsequence(iter, Chain(DictValues(refname_to_intervals')))
          /\ \A refname \in Refnames :
                 DictHas(refname_to_tree, refname) =>
                     /\ DictHas(refname_to_tree', refname)
                     /\ LET before == tree_of(self, refname)
                            after == tree_of(selfNext, refname)
                            stored == DictGet(refname_to_intervals, refname)
                            storedNext == DictGet(refname_to_intervals', refname)
                        IN \/ stored = storedNext /\ before = after
                           \/ \A q \in {x \in QueryPool : x.refname = refname} :
                                  overlap_set_of(before, stored, q)
                                      \subseteq overlap_set_of(after, storedNext, q)]_vars

\* A second value has been added on a contig and a query returns both.
C29_Witness ==
    /\ last.op = "get_overlaps"
    /\ Len(last.list) >= 2
    /\ Len(added) >= 3
    /\ DictHas(refname_to_intervals, "chr2")

(***************************************************************************)
(* C26.  The BedSource lifecycle.  (a) _file_is_open is true exactly when  *)
(* the source's file handle is open.  (b) An iterator started on a source  *)
(* that is not open opens it, and when that iterator is exhausted the      *)
(* source is closed again: this is the iteration from_bed makes.  (c) An   *)
(* iterator started on a source that was already open never closes it.     *)
(* (d) close() on a source that is not open fails and changes nothing.     *)
(* As stated, (b) speaks of every source that is not open; it holds of     *)
(* the sources made from a path, and a source made from a closed file      *)
(* object cannot be opened.                                                *)
(***************************************************************************)
HandleOpen(s) == s.in_fh # 0 /\ s.handles[s.in_fh].open

FlagMatchesHandle == source.op # "none" => (source.file_is_open <=> HandleOpen(source))

\* Iterator k was advanced by this step.
Advanced(k) ==
    /\ source.op # "none"
    /\ source'.op = "next"
    /\ source'.it = k

\* Iterator k opened the source in this step: the source is open unless the
\* same step exhausted the file.
OpensIt(k) ==
    /\ source'.iters[k].managed
    /\ source'.iters[k].state # "done" => source'.file_is_open /\ HandleOpen(source')

ClosesWhenExhausted(k) ==
    (source'.iters[k].state = "done" /\ source'.iters[k].managed)
        => ~source'.file_is_open /\ ~HandleOpen(source')

LeavesOpen(k) ==
    (source'.iters[k].state # "failed" /\ ~source'.iters[k].managed)
        => /\ source.file_is_open /\ source'.file_is_open
           /\ HandleOpen(source) /\ HandleOpen(source')

CloseFailsWhenNotOpen ==
    (source.op # "none" /\ source'.op = "close" /\ ~source.file_is_open)
        => /\ source'.raised
           /\ source'.handles = source.handles
           /\ ~source'.file_is_open

====
